---- MODULE Spec2Model ----
(***************************************************************************)
(* Attribution-graph visualisation: the GEO role normalisation             *)
(* (normalizeGeo), the data loading effect of the NetworkGraph component   *)
(* and the query evaluator (analyzeQuery) of the QueryPanel component.     *)
(*                                                                         *)
(* JavaScript values are represented as follows.                           *)
(*   - a string is a TLA+ string; template literals and concatenation are  *)
(*     \o, String.prototype.includes and toLowerCase are computed on the   *)
(*     characters;                                                         *)
(*   - an object is a record; a property that is absent (undefined) is a   *)
(*     field that is not in the record's DOMAIN;                           *)
(*   - a link endpoint is tagged with its typeof: [kind |-> "string",      *)
(*     val |-> id], [kind |-> "object", id |-> id] or [kind |-> "number",  *)
(*     val |-> n];                                                         *)
(*   - an Array is a sequence; a Map or a Set whose iteration order the    *)
(*     code uses is a sequence in insertion order, one that is only        *)
(*     queried (has / get) is a function or a set.                         *)
(***************************************************************************)
EXTENDS Integers, Sequences, FiniteSets, TLC

VARIABLES
    networkData,   \* argument of the normalizeGeo invocation under study
    normalized,    \* its return value
    renormalized,  \* normalizeGeo applied to that return value
    normPc,        \* "input" | "normalized" | "renormalized" | "repeated"
    networkType,   \* NetworkGraph state: the selected dataset
    loading,       \* NetworkGraph state: the loading flag
    data,          \* NetworkGraph state: the published graph, or Null
    selectedNode,  \* NetworkGraph state: id of the selected node, or ""
    pending,       \* fetches in flight, counted per dataset their effect captured
    lastLoad,      \* the load that settled last: what was fetched and what came of it
    qData,         \* QueryPanel prop: the graph, or Null
    query,         \* QueryPanel state: the question text
    results,       \* QueryPanel state: the last result, or Null
    queryThrew,    \* whether the last handleQuery ended in an uncaught exception
    asked          \* the argument of the last analyzeQuery call, if there was one

normVars == <<networkData, normalized, renormalized, normPc>>
loadVars == <<networkType, loading, data, selectedNode, pending, lastLoad>>
queryVars == <<qData, query, results, queryThrew, asked>>
vars == <<normVars, loadVars, queryVars>>

-----------------------------------------------------------------------------
(* Bounds of the explored inputs *)

MaxLinks == 2
MaxPending == 2
MaxQueryLinks == 2

-----------------------------------------------------------------------------
(* Values before anything has happened *)

Null == [null |-> TRUE]
EmptyGraph == [nodes |-> <<>>, links |-> <<>>]
NoLoad == [outcome |-> "none"]
NotAsked == [called |-> FALSE]
Datasets == {"sector", "geo"}

\* No normalizeGeo invocation is under study
NormIdle ==
    /\ networkData = [nodes |-> <<>>, links |-> <<>>]
    /\ normalized = EmptyGraph
    /\ renormalized = EmptyGraph
    /\ normPc = "idle"

\* The NetworkGraph component is not part of the run
LoadIdle ==
    /\ networkType = "sector"
    /\ loading = TRUE
    /\ data = Null
    /\ selectedNode = ""
    /\ pending = [t \in Datasets |-> 0]
    /\ lastLoad = NoLoad

\* The QueryPanel component is not part of the run
QueryIdle ==
    /\ qData = Null
    /\ query = ""
    /\ results = Null
    /\ queryThrew = FALSE
    /\ asked = NotAsked

-----------------------------------------------------------------------------
(* Strings *)

\* The letters toLowerCase changes, each with its lower-case form
LowerOf ==
    [c \in {"A", "B", "C", "D", "E", "F", "G", "H", "I", "J", "K", "L", "M",
            "N", "O", "P", "Q", "R", "S", "T", "U", "V", "W", "X", "Y", "Z"} |->
        CASE c = "A" -> "a" [] c = "B" -> "b" [] c = "C" -> "c" [] c = "D" -> "d"
          [] c = "E" -> "e" [] c = "F" -> "f" [] c = "G" -> "g" [] c = "H" -> "h"
          [] c = "I" -> "i" [] c = "J" -> "j" [] c = "K" -> "k" [] c = "L" -> "l"
          [] c = "M" -> "m" [] c = "N" -> "n" [] c = "O" -> "o" [] c = "P" -> "p"
          [] c = "Q" -> "q" [] c = "R" -> "r" [] c = "S" -> "s" [] c = "T" -> "t"
          [] c = "U" -> "u" [] c = "V" -> "v" [] c = "W" -> "w" [] c = "X" -> "x"
          [] c = "Y" -> "y" [] c = "Z" -> "z"]

LowerChar(c) == IF c \in DOMAIN LowerOf THEN LowerOf[c] ELSE c

RECURSIVE toLowerCase(_)
toLowerCase(s) ==
    IF Len(s) <= 1 THEN LowerChar(s)
    ELSE LET half == Len(s) \div 2
         IN  toLowerCase(SubSeq(s, 1, half)) \o toLowerCase(SubSeq(s, half + 1, Len(s)))

includes(s, sub) ==
    \E i \in 0..(Len(s) - Len(sub)) : SubSeq(s, i + 1, i + Len(sub)) = sub

\* TLC evaluates an operator's argument when it is first used: a loop that
\* carries its accumulator along looks at it in every round, so that the value
\* is built round by round as the code builds it
evaluated(acc) == acc = acc

-----------------------------------------------------------------------------
(* normalizeGeo *)

\* typeof l.source === 'object' ? l.source.id : l.source
endpointId(e) == IF e.kind = "object" THEN e.id ELSE e.val

\* First pass: links with plain ids, weight ?? 1, type || ''
normLink(l) ==
    [source |-> endpointId(l.source),
     target |-> endpointId(l.target),
     weight |-> IF "weight" \in DOMAIN l THEN l.weight ELSE 1,
     type   |-> IF "type" \in DOMAIN l /\ l.type # "" THEN l.type ELSE ""]

links(doc) ==
    IF "links" \in DOMAIN doc
    THEN [i \in 1..Len(doc.links) |-> normLink(doc.links[i])]
    ELSE <<>>

\* Set.prototype.add on an insertion-ordered set
setAdd(s, x) == IF \E i \in 1..Len(s) : s[i] = x THEN s ELSE Append(s, x)

RECURSIVE allNodeIdsFrom(_, _, _)
allNodeIdsFrom(ls, i, acc) ==
    IF i > Len(ls) THEN acc
    ELSE allNodeIdsFrom(ls, i + 1, setAdd(setAdd(acc, ls[i].source), ls[i].target))

allNodeIds(ls) == allNodeIdsFrom(ls, 1, <<>>)

\* Map.prototype.set on a map of node records keyed by id, in insertion order
mapHas(m, id) == \E i \in 1..Len(m) : m[i].id = id

mapSet(m, n) ==
    IF mapHas(m, n.id)
    THEN [i \in 1..Len(m) |-> IF m[i].id = n.id THEN n ELSE m[i]]
    ELSE Append(m, n)

RECURSIVE baseNodesFrom(_, _, _)
baseNodesFrom(ns, i, acc) ==
    IF i > Len(ns) THEN acc ELSE baseNodesFrom(ns, i + 1, mapSet(acc, ns[i]))

RECURSIVE addMissingFrom(_, _, _)
addMissingFrom(ids, i, acc) ==
    IF i > Len(ids) THEN acc
    ELSE addMissingFrom(ids, i + 1,
            IF mapHas(acc, ids[i]) THEN acc
            ELSE Append(acc, [id |-> ids[i], type |-> "actor", degree |-> 0]))

nodesByIdNoHealing(doc, ls) ==
    baseNodesFrom(IF "nodes" \in DOMAIN doc THEN doc.nodes ELSE <<>>, 1, <<>>)

nodesById(doc, ls) ==
    addMissingFrom(allNodeIds(ls), 1,
        baseNodesFrom(IF "nodes" \in DOMAIN doc THEN doc.nodes ELSE <<>>, 1, <<>>))

\* Roles of the two endpoints of one link, from its type
sourceRole(l) ==
    IF includes(toLowerCase(l.type), "sponsor_to") THEN "sponsor" ELSE "actor"

targetRole(l) ==
    LET t == toLowerCase(l.type)
    IN  IF includes(t, "_to_victim") \/ includes(t, "to_victim")
        THEN "victim" ELSE "actor"

linkRoles(ls) ==
    [i \in 1..Len(ls) |->
        [link |-> ls[i], sourceRole |-> sourceRole(ls[i]), targetRole |-> targetRole(ls[i])]]

\* nodeRoles: Map id -> Set of roles; only get / has are used on it
rolesGet(m, id) == IF id \in DOMAIN m THEN m[id] ELSE {}

rolesAddLastOnly(m, id, role) ==
    [k \in DOMAIN m \cup {id} |-> IF k = id THEN {role} ELSE m[k]]

rolesAdd(m, id, role) ==
    [k \in DOMAIN m \cup {id} |-> IF k = id THEN rolesGet(m, id) \cup {role} ELSE m[k]]

RECURSIVE nodeRolesFrom(_, _, _)
nodeRolesFrom(lr, i, acc) ==
    IF i > Len(lr) THEN acc
    ELSE nodeRolesFrom(lr, i + 1,
            rolesAdd(rolesAdd(acc, lr[i].link.source, lr[i].sourceRole),
                     lr[i].link.target, lr[i].targetRole))

nodeRoles(lr) == nodeRolesFrom(lr, 1, <<>>)

needsSplitExact(roles) == {id \in DOMAIN roles : roles[id] = {"sponsor", "victim"}}

needsSplit(roles) ==
    {id \in DOMAIN roles : "sponsor" \in roles[id] /\ "victim" \in roles[id]}

getNodeIdActorVariant(split, originalId, role) ==
    IF originalId \notin split THEN originalId
    ELSE IF role = "sponsor" THEN originalId \o " [S]"
    ELSE IF role = "victim" THEN originalId \o " [T]"
    ELSE originalId \o " [A]"

\* getNodeId: the id an endpoint is rewired to, by its role on that link
getNodeId(split, originalId, role) ==
    IF originalId \notin split THEN originalId
    ELSE IF role = "sponsor" THEN originalId \o " [S]"
    ELSE IF role = "victim" THEN originalId \o " [T]"
    ELSE originalId \o " [S]"

nodeTypeFromRolesOnly(node, roles) ==
    IF node.id \in DOMAIN roles /\ "sponsor" \in roles[node.id] THEN "sponsor"
    ELSE IF node.id \in DOMAIN roles /\ "victim" \in roles[node.id] THEN "victim"
    ELSE "actor"

nodeTypeRawFirst(node, roles) ==
    IF "type" \in DOMAIN node /\ node.type # "" THEN node.type
    ELSE IF node.id \in DOMAIN roles /\ "sponsor" \in roles[node.id] THEN "sponsor"
    ELSE IF node.id \in DOMAIN roles /\ "victim" \in roles[node.id] THEN "victim"
    ELSE "actor"

\* let nodeType = node.type || 'actor'; sponsor, else victim, from the roles
nodeType(node, roles) ==
    IF node.id \in DOMAIN roles /\ "sponsor" \in roles[node.id] THEN "sponsor"
    ELSE IF node.id \in DOMAIN roles /\ "victim" \in roles[node.id] THEN "victim"
    ELSE IF "type" \in DOMAIN node /\ node.type # "" THEN node.type
    ELSE "actor"

RECURSIVE newNodesFrom(_, _, _, _, _)
newNodesFrom(byId, roles, split, i, acc) ==
    IF i > Len(byId) THEN acc
    ELSE newNodesFrom(byId, roles, split, i + 1,
            IF byId[i].id \in split
            THEN acc \o << [id |-> byId[i].id \o " [S]", type |-> "sponsor", degree |-> 0],
                           [id |-> byId[i].id \o " [T]", type |-> "victim", degree |-> 0] >>
            ELSE Append(acc, [id |-> byId[i].id, type |-> nodeType(byId[i], roles),
                              degree |-> 0]))

newNodes(byId, roles, split) == newNodesFrom(byId, roles, split, 1, <<>>)

newLinks(lr, split) ==
    [i \in 1..Len(lr) |->
        [source |-> getNodeId(split, lr[i].link.source, lr[i].sourceRole),
         target |-> getNodeId(split, lr[i].link.target, lr[i].targetRole),
         weight |-> lr[i].link.weight,
         type   |-> lr[i].link.type]]

newNodeIds(ns) == {ns[i].id : i \in 1..Len(ns)}

invalidLinks(nl, ids) ==
    LET bad(l) == l.source \notin ids \/ l.target \notin ids
    IN  SelectSeq(nl, bad)

validLinks(nl, ids) ==
    LET good(l) == l.source \in ids /\ l.target \in ids
    IN  SelectSeq(nl, good)

\* deg: Map id -> count, (deg.get(id) || 0) + 1 for each endpoint occurrence
degGet(d, id) == IF id \in DOMAIN d THEN d[id] ELSE 0

degInc(d, id) == [k \in DOMAIN d \cup {id} |-> IF k = id THEN degGet(d, id) + 1 ELSE d[k]]

RECURSIVE degFrom(_, _, _)

degFromSourcesOnly(nl, i, acc) ==
    IF i > Len(nl) THEN acc
    ELSE degFrom(nl, i + 1, degInc(acc, nl[i].source))

degFrom(nl, i, acc) ==
    IF i > Len(nl) THEN acc
    ELSE degFrom(nl, i + 1, degInc(degInc(acc, nl[i].source), nl[i].target))

withDegrees(ns, nl) ==
    LET deg == degFrom(nl, 1, [id \in newNodeIds(ns) |-> 0])
    IN  [i \in 1..Len(ns) |-> [ns[i] EXCEPT !.degree = degGet(deg, ns[i].id)]]

normalizeGeoReturnsLinks(doc) ==
    LET ls    == links(doc)
        byId  == nodesById(doc, ls)
        lr    == linkRoles(ls)
        roles == nodeRoles(lr)
        split == needsSplit(roles)
        nn    == newNodes(byId, roles, split)
        nl    == newLinks(lr, split)
        ids   == newNodeIds(nn)
    IN  IF Len(invalidLinks(nl, ids)) > 0
        THEN [nodes |-> nn, links |-> validLinks(nl, ids)]
        ELSE [nodes |-> withDegrees(nn, nl), links |-> ls]

normalizeGeo(doc) ==
    LET ls    == links(doc)
        byId  == nodesById(doc, ls)
        lr    == linkRoles(ls)
        roles == nodeRoles(lr)
        split == needsSplit(roles)
        nn    == newNodes(byId, roles, split)
        nl    == newLinks(lr, split)
        ids   == newNodeIds(nn)
    IN  IF Len(invalidLinks(nl, ids)) > 0
        THEN [nodes |-> nn, links |-> validLinks(nl, ids)]
        ELSE [nodes |-> withDegrees(nn, nl), links |-> nl]

docAfterNormalizeCanonicalInPlace(doc) ==
    IF "links" \in DOMAIN doc
    THEN [doc EXCEPT !.links =
            [i \in 1..Len(doc.links) |->
                [source |-> [kind |-> "string", val |-> endpointId(doc.links[i].source)],
                 target |-> [kind |-> "string", val |-> endpointId(doc.links[i].target)],
                 weight |-> normLink(doc.links[i]).weight,
                 type   |-> normLink(doc.links[i]).type]]]
    ELSE doc

\* What normalizeGeo leaves of its argument: links are mapped to new objects,
\* nodes are spread into new objects, degrees are assigned to the new nodes
docAfterNormalize(doc) == doc

\* The graph normalizeGeo returned, as a document to normalise again
asDoc(g) ==
    [nodes |-> g.nodes,
     links |-> [i \in 1..Len(g.links) |->
                  [source |-> [kind |-> "string", val |-> g.links[i].source],
                   target |-> [kind |-> "string", val |-> g.links[i].target],
                   weight |-> g.links[i].weight,
                   type   |-> g.links[i].type]]]

-----------------------------------------------------------------------------
(* Inputs of the normalisation: raw documents *)

RawIds == {"A", "A [S]"}
RawNodeTypes == {"country"}
RawLinkTypes == {"", "sponsor_to_actor", "Actor_To_Victim", "sponsor_to_victim"}

BoundedSeq(S, n) == UNION {[1..k -> S] : k \in 0..n}

\* Raw nodes: without a type, or "A" with a type that is none of the roles
RawNodes == {[id |-> i] : i \in RawIds} \cup {[id |-> "A", type |-> t] : t \in RawNodeTypes}

RawNodeLists ==
    {ns \in BoundedSeq(RawNodes, Cardinality(RawIds)) :
        \A i, j \in 1..Len(ns) : ns[i].id = ns[j].id => i = j}

\* A link as the JSON carries it: plain ids with weight and type, or
\* id-bearing objects without weight and with the empty type left out.
PlainLink(s, t, ty) ==
    [source |-> [kind |-> "string", val |-> s], target |-> [kind |-> "string", val |-> t],
     weight |-> 3, type |-> ty]

ObjectLink(s, t, ty) ==
    IF ty = ""
    THEN [source |-> [kind |-> "object", id |-> s], target |-> [kind |-> "object", id |-> t]]
    ELSE [source |-> [kind |-> "object", id |-> s], target |-> [kind |-> "object", id |-> t],
          type |-> ty]

CoreLinks == RawIds \X RawIds \X RawLinkTypes

RawLinkLists ==
    UNION { {[i \in 1..Len(c) |-> PlainLink(c[i][1], c[i][2], c[i][3])],
             [i \in 1..Len(c) |-> ObjectLink(c[i][1], c[i][2], c[i][3])]}
            : c \in BoundedSeq(CoreLinks, MaxLinks) }

RawDocs ==
    {[nodes |-> ns, links |-> ls] : ns \in RawNodeLists, ls \in RawLinkLists}
    \cup {[links |-> ls] : ls \in RawLinkLists}
    \cup {[nodes |-> ns] : ns \in RawNodeLists}

-----------------------------------------------------------------------------
(* The data loading effect of NetworkGraph *)

\* if (!raw || (!raw.nodes && !raw.links)) throw new Error(...)
validRawBothRequired(raw) ==
    ~(raw = Null \/ "nodes" \notin DOMAIN raw \/ "links" \notin DOMAIN raw)

validRaw(raw) ==
    ~(raw = Null \/ ("nodes" \notin DOMAIN raw /\ "links" \notin DOMAIN raw))

\* Ensure minimal shape: id, type || 'actor', degree ?? 0; links with plain ids
safeNode(n) ==
    [id     |-> n.id,
     type   |-> IF "type" \in DOMAIN n /\ n.type # "" THEN n.type ELSE "actor",
     degree |-> IF "degree" \in DOMAIN n THEN n.degree ELSE 0]

safeLink(l) ==
    [source |-> [kind |-> "string", val |-> endpointId(l.source)],
     target |-> [kind |-> "string", val |-> endpointId(l.target)],
     weight |-> IF "weight" \in DOMAIN l THEN l.weight ELSE 1,
     type   |-> IF "type" \in DOMAIN l /\ l.type # "" THEN l.type ELSE ""]

safe(doc) ==
    [nodes |-> IF "nodes" \in DOMAIN doc
               THEN [i \in 1..Len(doc.nodes) |-> safeNode(doc.nodes[i])] ELSE <<>>,
     links |-> IF "links" \in DOMAIN doc
               THEN [i \in 1..Len(doc.links) |-> safeLink(doc.links[i])] ELSE <<>>]

loadNormalizedEither(t, raw) == asDoc(normalizeGeo(raw))

\* const normalized = networkType === 'geo' ? normalizeGeo(raw) : raw
loadNormalized(t, raw) == IF t = "geo" THEN asDoc(normalizeGeo(raw)) ELSE raw

\* What the JSON files may hold
LoadDocs ==
    { [nodes |-> <<[id |-> "A", type |-> "country"], [id |-> "A [S]"]>>,
       links |-> <<PlainLink("A", "A [S]", "sponsor_to_actor")>>],
      [nodes |-> <<[id |-> "A"]>>,
       links |-> <<ObjectLink("A", "A", "sponsor_to_victim")>>],
      [nodes |-> <<>>, links |-> <<>>],
      [nodes |-> <<[id |-> "A", type |-> "country"]>>],
      [links |-> <<PlainLink("A", "A [S]", "Actor_To_Victim")>>],
      [version |-> "1"],
      Null }

PendingCount == pending["sector"] + pending["geo"]

\* State after the component has mounted and its effect has run once
LoadInit ==
    /\ networkType = "sector"
    /\ loading = TRUE
    /\ data = Null
    /\ selectedNode = ""
    /\ pending = [t \in Datasets |-> IF t = "sector" THEN 1 ELSE 0]
    /\ lastLoad = NoLoad

\* SECTOR VIEW / GEOGRAPHIC VIEW: setNetworkType(t); setSelectedNode(null); when
\* networkType changes the effect runs: setLoading(true), setSelectedNode(null),
\* fetch(filename). The effect returns no cleanup: earlier fetches stay in flight.
SwitchNetwork(t) ==
    /\ t # networkType => PendingCount < MaxPending
    /\ networkType' = t
    /\ selectedNode' = ""
    /\ IF t # networkType
       THEN /\ loading' = TRUE
            /\ pending' = [pending EXCEPT ![t] = @ + 1]
       ELSE UNCHANGED <<loading, pending>>
    /\ UNCHANGED <<data, lastLoad, normVars, queryVars>>

\* A click on a node of the drawn graph: setSelectedNode(d)
SelectNode(i) ==
    /\ data # Null
    /\ i \in 1..Len(data.nodes)
    /\ selectedNode' = data.nodes[i].id
    /\ UNCHANGED <<networkType, loading, data, pending, lastLoad, normVars, queryVars>>

\* The fetch of dataset t fails (network error, !r.ok or unparsable JSON):
\* .catch: alert(...), setLoading(false)
LoadFailed(t) ==
    /\ pending[t] > 0
    /\ pending' = [pending EXCEPT ![t] = @ - 1]
    /\ loading' = FALSE
    /\ lastLoad' = [outcome |-> "failed", networkType |-> t, message |-> "HTTP"]
    /\ UNCHANGED <<networkType, data, selectedNode, normVars, queryVars>>

\* The fetch of dataset t delivers the document raw: validation, normalisation
\* for geo, minimal shape, setData(safe), setLoading(false); a thrown error goes
\* to .catch
LoadDelivered(t, raw) ==
    /\ pending[t] > 0
    /\ pending' = [pending EXCEPT ![t] = @ - 1]
    /\ loading' = FALSE
    /\ IF validRaw(raw)
       THEN /\ data' = safe(loadNormalized(t, raw))
            /\ lastLoad' = [outcome |-> "published", networkType |-> t, raw |-> raw,
                            normalizeGeoRan |-> (t = "geo")]
       ELSE /\ data' = data
            /\ lastLoad' = [outcome |-> "failed", networkType |-> t, raw |-> raw,
                            normalizeGeoRan |-> FALSE,
                            message |-> "Invalid network data structure"]
    /\ UNCHANGED <<networkType, selectedNode, normVars, queryVars>>

Init == LoadInit /\ NormIdle /\ QueryIdle

Next ==
    \/ \E t \in Datasets : SwitchNetwork(t)
    \/ \E i \in 1..2 : SelectNode(i)
    \/ \E t \in Datasets : LoadFailed(t)
    \/ \E t \in Datasets, raw \in LoadDocs : LoadDelivered(t, raw)

Spec == Init /\ [][Next]_vars

-----------------------------------------------------------------------------
(* analyzeQuery of QueryPanel *)

\* Values of link endpoints are tagged with their typeof; node ids are strings.
Str(x) == [kind |-> "string", val |-> x]
Num(n) == [kind |-> "number", val |-> n]
Obj(x) == [kind |-> "object", id |-> x]

\* typeof e === 'object' ? e.id : e
idOf(e) == IF e.kind = "object" THEN Str(e.id) ELSE e

\* v === s for a string s
strictEq(v, s) == v.kind = "string" /\ v.val = s

\* ToBoolean of a string or a number
truthy(v) == IF v.kind = "string" THEN v.val # "" ELSE v.val # 0

WordChars ==
    {"a", "b", "c", "d", "e", "f", "g", "h", "i", "j", "k", "l", "m", "n", "o", "p", "q",
     "r", "s", "t", "u", "v", "w", "x", "y", "z", "0", "1", "2", "3", "4", "5", "6", "7",
     "8", "9", "_"} \cup DOMAIN LowerOf

isWordOrSpace(c) == c \in WordChars \/ c = " "

allWordOrSpace(s) == \A i \in 1..Len(s) : isWordOrSpace(SubSeq(s, i, i))

startsAt(s, i, sub) == i + Len(sub) - 1 <= Len(s) /\ SubSeq(s, i, i + Len(sub) - 1) = sub

NoMatch == [found |-> FALSE]

\* q.match(/what does ([\w\s]+) target/i): leftmost start, greedy group
matchWhatDoes(q) ==
    LET pre    == "what does "
        post   == " target"
        ends(i) == {e \in (i + Len(pre))..Len(q) :
                      /\ allWordOrSpace(SubSeq(q, i + Len(pre), e))
                      /\ startsAt(q, e + 1, post)}
        starts == {i \in 1..Len(q) : startsAt(q, i, pre) /\ ends(i) # {}}
    IN  IF starts = {} THEN NoMatch
        ELSE LET i == CHOOSE a \in starts : \A b \in starts : a <= b
                 e == CHOOSE a \in ends(i) : \A b \in ends(i) : a >= b
             IN  [found |-> TRUE, group |-> SubSeq(q, i + Len(pre), e)]

CountryTokens == <<"china", "russia", "iran", "korea">>

\* q.match(/(china|russia|iran|korea)/i): leftmost position, first alternative
matchCountry(q) ==
    LET hits(i) == {k \in 1..Len(CountryTokens) : startsAt(q, i, CountryTokens[k])}
        starts  == {i \in 1..Len(q) : hits(i) # {}}
    IN  IF starts = {} THEN NoMatch
        ELSE LET i == CHOOSE a \in starts : \A b \in starts : a <= b
                 k == CHOOSE a \in hits(i) : \A b \in hits(i) : a <= b
             IN  [found |-> TRUE, group |-> CountryTokens[k]]

RECURSIVE trimStart(_)
trimStart(s) ==
    IF s # "" /\ SubSeq(s, 1, 1) = " " THEN trimStart(SubSeq(s, 2, Len(s))) ELSE s

RECURSIVE trimEnd(_)
trimEnd(s) ==
    IF s # "" /\ SubSeq(s, Len(s), Len(s)) = " " THEN trimEnd(SubSeq(s, 1, Len(s) - 1)) ELSE s

trim(s) == trimEnd(trimStart(s))

\* countryVariations[country.toLowerCase()] || country
sponsorNameOf(country) ==
    LET c == toLowerCase(country)
    IN  CASE c = "china"       -> "China"
          [] c = "russia"      -> "Russian Federation"
          [] c = "iran"        -> "Iran (Islamic Republic of)"
          [] c = "north korea" -> "Korea (Democratic People's Republic of)"
          [] OTHER             -> country

\* link.weight || 1
weightOr1(l) == IF "weight" \in DOMAIN l /\ l.weight # 0 THEN l.weight ELSE 1

\* (l.type || '').toLowerCase()
lowerType(l) == IF "type" \in DOMAIN l THEN toLowerCase(l.type) ELSE ""

\* counts[key] = (counts[key] || 0) + w on an object whose keys are node ids
\* (strings that are not array indices, so Object.entries is in insertion order)
countHas(c, name) == \E i \in 1..Len(c) : c[i].name = name

countAdd(c, name, w) ==
    IF countHas(c, name)
    THEN [i \in 1..Len(c) |-> IF c[i].name = name THEN [c[i] EXCEPT !.count = @ + w] ELSE c[i]]
    ELSE Append(c, [name |-> name, count |-> w])

\* Array.prototype.sort((a, b) => b[key] - a[key]): stable, descending
insertDesc(sorted, x, key) ==
    LET before == Cardinality({j \in 1..Len(sorted) : sorted[j][key] >= x[key]})
    IN  SubSeq(sorted, 1, before) \o <<x>> \o SubSeq(sorted, before + 1, Len(sorted))

RECURSIVE sortDescFrom(_, _, _, _)
sortDescFrom(xs, i, acc, key) ==
    IF evaluated(acc) /\ i > Len(xs) THEN acc ELSE sortDescFrom(xs, i + 1, insertDesc(acc, xs[i], key), key)

sortDesc(xs, key) == sortDescFrom(xs, 1, <<>>, key)

\* slice(0, n)
slice0(xs, n) == SubSeq(xs, 1, IF Len(xs) < n THEN Len(xs) ELSE n)

TopOfCountryTargets == 10
TopOfMostTargeted == 15
TopOfMostActive == 15

\* --- multiple_sponsors
\* data.nodes.filter(n => n.type === 'actor')
actorNodes(g) ==
    LET isActor(n) == n.type = "actor"
    IN  SelectSeq(g.nodes, isActor)

\* data.links.filter(l => targetId === actor.id && linkType.includes('sponsor_to_actor'))
sponsorEdges(ls, actorId) ==
    LET sponsorsActor(l) == /\ strictEq(idOf(l.target), actorId)
                            /\ includes(lowerType(l), "sponsor_to_actor")
    IN  SelectSeq(ls, sponsorsActor)

\* sponsorEdges.map(e => typeof e.source === 'object' ? e.source.id : e.source)
sponsorIds(es) == [k \in 1..Len(es) |-> idOf(es[k].source)]

RECURSIVE uniqueSponsorsFromEdges(_, _, _)
uniqueSponsorsFromEdges(ids, i, acc) ==
    IF evaluated(acc) /\ i > Len(ids) THEN acc
    ELSE uniqueSponsorsFromEdges(ids, i + 1, Append(acc, ids[i]))

\* new Set(ids), in insertion order
RECURSIVE uniqueSponsorsFrom(_, _, _)
uniqueSponsorsFrom(ids, i, acc) ==
    IF evaluated(acc) /\ i > Len(ids) THEN acc
    ELSE uniqueSponsorsFrom(ids, i + 1, setAdd(acc, ids[i]))

\* the entry the forEach body builds for one actor
sponsoredActor(g, actor) ==
    LET u == uniqueSponsorsFrom(sponsorIds(sponsorEdges(g.links, actor.id)), 1, <<>>)
    IN  [actor |-> actor.id, sponsorCount |-> Len(u), sponsors |-> u, degree |-> actor.degree]

\* the entries pushed, in the order of actorNodes: those with uniqueSponsors.size > 1
multipleSponsors(g) ==
    LET actors == actorNodes(g)
        built == [k \in 1..Len(actors) |-> sponsoredActor(g, actors[k])]
        several(e) == e.sponsorCount > 1
        found == SelectSeq(built, several)
    IN  [type |-> "multiple_sponsors", count |-> Len(found),
         results |-> sortDesc(found, "sponsorCount")]

\* --- country_targets
sourceMatchTokenOnly(sourceId, sponsorName, country) ==
    IF ~truthy(sourceId) THEN "no"
    ELSE IF sourceId.kind # "string" THEN "throws"
    ELSE IF includes(toLowerCase(sourceId.val), toLowerCase(country)) THEN "yes"
    ELSE "no"

\* sourceId === sponsorName || (sourceId && sourceId.toLowerCase().includes(...))
\* "throws" when toLowerCase is called on a value that is not a string
sourceMatch(sourceId, sponsorName, country) ==
    IF strictEq(sourceId, sponsorName) THEN "yes"
    ELSE IF ~truthy(sourceId) THEN "no"
    ELSE IF sourceId.kind # "string" THEN "throws"
    ELSE IF includes(toLowerCase(sourceId.val), toLowerCase(country)) THEN "yes"
    ELSE "no"

RECURSIVE countryTargetsFrom(_, _, _, _, _)
countryTargetsFrom(ls, sponsorName, country, i, acc) ==
    IF evaluated(acc) /\ i > Len(ls) THEN acc
    ELSE countryTargetsFrom(ls, sponsorName, country, i + 1,
            IF sourceMatch(idOf(ls[i].source), sponsorName, country) = "yes"
            THEN countAdd(acc, idOf(ls[i].target).val, weightOr1(ls[i])) ELSE acc)

Thrown == [threw |-> "TypeError"]

countryTargets(g, m) ==
    LET country     == trim(m.group)
        sponsorName == sponsorNameOf(country)
    IN  IF \E i \in 1..Len(g.links) :
              sourceMatch(idOf(g.links[i].source), sponsorName, country) = "throws"
        THEN Thrown
        ELSE [type |-> "country_targets", sponsor |-> sponsorName,
              results |-> slice0(sortDesc(countryTargetsFrom(g.links, sponsorName, country,
                                                             1, <<>>), "count"),
                                 TopOfCountryTargets)]

\* --- most_targeted
RECURSIVE mostTargetedFromVictimOnly(_, _, _)
mostTargetedFromVictimOnly(ls, i, acc) ==
    IF evaluated(acc) /\ i > Len(ls) THEN acc
    ELSE mostTargetedFromVictimOnly(ls, i + 1,
            IF includes(lowerType(ls[i]), "victim")
            THEN countAdd(acc, idOf(ls[i].target).val, weightOr1(ls[i])) ELSE acc)

RECURSIVE mostTargetedFrom(_, _, _)
mostTargetedFrom(ls, i, acc) ==
    IF evaluated(acc) /\ i > Len(ls) THEN acc
    ELSE mostTargetedFrom(ls, i + 1,
            IF includes(lowerType(ls[i]), "victim") \/ includes(lowerType(ls[i]), "target")
            THEN countAdd(acc, idOf(ls[i].target).val, weightOr1(ls[i])) ELSE acc)

mostTargeted(g) ==
    [type |-> "most_targeted",
     results |-> slice0(sortDesc(mostTargetedFrom(g.links, 1, <<>>), "count"),
                        TopOfMostTargeted)]

\* --- most_active
sourceHasAnyType(g, sourceId, type) ==
    \E k \in 1..Len(g.nodes) : strictEq(sourceId, g.nodes[k].id)

\* data.nodes.find(n => n.id === sourceId) && sourceNode.type === type
sourceHasType(g, sourceId, type) ==
    /\ \E k \in 1..Len(g.nodes) : strictEq(sourceId, g.nodes[k].id)
    /\ LET k == CHOOSE a \in 1..Len(g.nodes) :
                  /\ strictEq(sourceId, g.nodes[a].id)
                  /\ \A b \in 1..Len(g.nodes) : strictEq(sourceId, g.nodes[b].id) => a <= b
       IN  g.nodes[k].type = type

RECURSIVE mostActiveFrom(_, _, _, _)
mostActiveFrom(g, type, i, acc) ==
    IF evaluated(acc) /\ i > Len(g.links) THEN acc
    ELSE mostActiveFrom(g, type, i + 1,
            IF sourceHasType(g, idOf(g.links[i].source), type)
            THEN countAdd(acc, idOf(g.links[i].source).val, weightOr1(g.links[i])) ELSE acc)

mostActive(g, q) ==
    LET type == IF includes(q, "sponsor") THEN "sponsor" ELSE "actor"
    IN  [type |-> "most_active", category |-> type,
         results |-> slice0(sortDesc(mostActiveFrom(g, type, 1, <<>>), "count"),
                            TopOfMostActive)]

UnknownMessage ==
    "Query not recognized. Try: \"which actors have multiple sponsors?\", \"what does China target most?\", \"most targeted countries\", or \"most active sponsors\""

analyzeQuery(g, queryText) ==
    IF g = Null THEN Null
    ELSE
    LET q == toLowerCase(queryText)
        m1 == matchWhatDoes(q)
        countryMatch == IF m1.found THEN m1 ELSE matchCountry(q)
    IN  IF includes(q, "multiple") /\ (includes(q, "sponsor") \/ includes(q, "backed"))
        THEN multipleSponsors(g)
        ELSE IF countryMatch.found /\ includes(q, "target")
        THEN countryTargets(g, countryMatch)
        ELSE IF includes(q, "most targeted")
        THEN mostTargeted(g)
        ELSE IF includes(q, "most active") /\ (includes(q, "sponsor") \/ includes(q, "actor"))
        THEN mostActive(g, q)
        ELSE [type |-> "unknown", message |-> UnknownMessage]

graphAfterQuerySortedInPlace(g, queryText) ==
    IF g = Null THEN g ELSE [g EXCEPT !.links = sortDesc(g.links, "weight")]

\* What analyzeQuery leaves of data: filter, map, new Set and Object.entries
\* build new arrays and only those are sorted; data.nodes, data.links and
\* their elements are read, never assigned
graphAfterQuery(g, queryText) == g

\* The graphs QueryPanel is given: the shape the loader publishes, where the
\* layout has replaced some endpoints by node objects and where a JSON file
\* may have numbered a source instead of naming it.
QueryNodes ==
    << [id |-> "China", type |-> "sponsor", degree |-> 0],
       [id |-> "Russian Federation", type |-> "sponsor", degree |-> 0],
       [id |-> "APT1", type |-> "actor", degree |-> 0],
       [id |-> "T1", type |-> "victim", degree |-> 0] >>

QueryLinkChoices ==
    { [source |-> Str("China"), target |-> Str("APT1"), weight |-> 1, type |-> "sponsor_to_actor"],
      [source |-> Obj("Russian Federation"), target |-> Obj("APT1"), weight |-> 2,
       type |-> "Sponsor_To_Actor"],
      [source |-> Str("APT1"), target |-> Str("T1"), weight |-> 3, type |-> "actor_to_victim"],
      [source |-> Str("China"), target |-> Str("T1"), weight |-> 0, type |-> ""],
      [source |-> Str("APT1"), target |-> Obj("China"), weight |-> 1, type |-> "targets"],
      [source |-> Num(7), target |-> Str("T1"), weight |-> 1, type |-> "actor_to_victim"],
      [source |-> Num(0), target |-> Str("APT1"), weight |-> 1, type |-> "sponsor_to_actor"] }

endpointCount(ls, id) ==
    Cardinality({i \in 1..Len(ls) : strictEq(idOf(ls[i].source), id)})
    + Cardinality({i \in 1..Len(ls) : strictEq(idOf(ls[i].target), id)})

\* The graph of the nodes ns and the links ls, each degree as the loader has it
QueryGraph(ns, ls) ==
    [nodes |-> [k \in 1..Len(ns) |-> [ns[k] EXCEPT !.degree = endpointCount(ls, ns[k].id)]],
     links |-> ls]

QLink(s, t, w, ty) == [source |-> s, target |-> t, weight |-> w, type |-> ty]

QNode(id, ty) == [id |-> id, type |-> ty, degree |-> 0]

\* Four actors sponsored by three states: APT1 and APT2 by two of them, APT3 by
\* all three, APT4 twice by the same one; T1 is sponsored twice but is no actor.
SponsorGraph ==
    QueryGraph(
        << QNode("China", "sponsor"), QNode("Russian Federation", "sponsor"),
           QNode("Iran (Islamic Republic of)", "sponsor"), QNode("APT1", "actor"),
           QNode("APT2", "actor"), QNode("APT3", "actor"), QNode("APT4", "actor"),
           QNode("T1", "victim") >>,
        << QLink(Str("China"), Str("APT1"), 1, "sponsor_to_actor"),
           QLink(Obj("Russian Federation"), Obj("APT1"), 1, "Sponsor_To_Actor"),
           QLink(Str("Russian Federation"), Str("APT2"), 2, "sponsor_to_actor"),
           QLink(Str("China"), Str("APT2"), 1, "sponsor_to_actor"),
           QLink(Str("China"), Str("T1"), 1, "sponsor_to_actor"),
           QLink(Str("Russian Federation"), Str("T1"), 1, "sponsor_to_actor"),
           QLink(Str("Iran (Islamic Republic of)"), Str("APT3"), 1, "sponsor_to_actor"),
           QLink(Str("China"), Str("APT3"), 1, "sponsor_to_actor"),
           QLink(Obj("Russian Federation"), Str("APT3"), 1, "sponsor_to_actor"),
           QLink(Str("China"), Str("APT4"), 1, "sponsor_to_actor"),
           QLink(Obj("China"), Str("APT4"), 1, "sponsor_to_actor"),
           QLink(Str("Russian Federation"), Str("APT4"), 1, "actor_to_victim") >>)

\* More sources and more targets than the longest result list holds
Ordinals ==
    << "01", "02", "03", "04", "05", "06", "07", "08", "09", "10", "11", "12", "13", "14",
       "15", "16" >>

WideGraph ==
    QueryGraph(
        <<QNode("Korea (Democratic People's Republic of)", "sponsor")>>
        \o [k \in 1..Len(Ordinals) |-> QNode("A" \o Ordinals[k], "actor")]
        \o [k \in 1..Len(Ordinals) |-> QNode("V" \o Ordinals[k], "victim")],
        [k \in 1..Len(Ordinals) |->
            QLink(Str("A" \o Ordinals[k]), Str("V" \o Ordinals[k]), ((k * 3) % 4) + 1,
                  "actor_to_victim")]
        \o << QLink(Str("Korea (Democratic People's Republic of)"), Str("A01"), 4,
                    "sponsor_to_actor"),
              QLink(Obj("A02"), Obj("V03"), 2, "Targets") >>)

\* One state with one target more than the list of a country's targets holds
CampaignGraph ==
    QueryGraph(
        << QNode("Korea (Democratic People's Republic of)", "sponsor"), QNode("A01", "actor") >>
        \o [k \in 1..(TopOfCountryTargets + 1) |-> QNode("V" \o Ordinals[k], "victim")],
        [k \in 1..(TopOfCountryTargets + 1) |->
            QLink(Str("Korea (Democratic People's Republic of)"), Str("V" \o Ordinals[k]),
                  ((k * 2) % 3) + 1, "sponsor_to_victim")]
        \o << QLink(Str("A01"), Str("V02"), 3, "actor_to_victim") >>)

\* A state named by its formal name, and a group named after the country
KoreaGraph ==
    QueryGraph(
        << QNode("Korea (Democratic People's Republic of)", "sponsor"),
           QNode("North Korea Unit", "actor"), QNode("China", "sponsor"),
           QNode("T1", "victim"), QNode("APT1", "actor") >>,
        << QLink(Str("Korea (Democratic People's Republic of)"), Str("T1"), 2,
                 "sponsor_to_victim"),
           QLink(Str("North Korea Unit"), Str("APT1"), 3, "actor_to_victim"),
           QLink(Str("China"), Str("T1"), 1, "sponsor_to_victim"),
           QLink(Str("North Korea Unit"), Str("T1"), 1, "monitors") >>)

QueryGraphs ==
    { QueryGraph(QueryNodes, ls) : ls \in BoundedSeq(QueryLinkChoices, MaxQueryLinks) }
    \cup {SponsorGraph, WideGraph, CampaignGraph, KoreaGraph}

Questions ==
    { "hello",
      "Which actors have multiple state sponsors?",
      "What does China target most?",
      "what does north korea target",
      "who targets Russia",
      "who targets korea",
      "most targeted countries",
      "most active sponsors",
      "Most Active actors",
      "multiple actors backed: most targeted by iran",
      "most targeted by china",
      "most targeted and most active actors",
      "what does apt1 target",
      "most active groups" }

\* QueryPanel as constructed, for each graph it may be given
QueryInit ==
    /\ qData \in QueryGraphs \cup {Null}
    /\ query = ""
    /\ results = Null
    /\ queryThrew = FALSE
    /\ asked = NotAsked
    /\ NormIdle
    /\ LoadIdle

\* onChange of the input: setQuery(e.target.value)
SetQuery(text) ==
    /\ query' = text
    /\ UNCHANGED <<qData, results, queryThrew, asked, normVars, loadVars>>

\* handleQuery: const result = analyzeQuery(query); setResults(result). An
\* exception thrown by analyzeQuery leaves the handler before setResults.
HandleQuery ==
    /\ LET result == analyzeQuery(qData, query)
       IN  IF result = Thrown
           THEN queryThrew' = TRUE /\ results' = results
           ELSE queryThrew' = FALSE /\ results' = result
    /\ asked' = [called |-> TRUE, queryText |-> query]
    /\ qData' = graphAfterQuery(qData, query)
    /\ UNCHANGED <<query, normVars, loadVars>>

QueryNext ==
    \/ \E text \in Questions : SetQuery(text)
    \/ HandleQuery

SpecQuery == QueryInit /\ [][QueryNext]_vars

-----------------------------------------------------------------------------
(* Normalisation of one raw document, then of its result *)

NormInit ==
    /\ networkData \in RawDocs
    /\ normalized = EmptyGraph
    /\ renormalized = EmptyGraph
    /\ normPc = "input"
    /\ LoadIdle
    /\ QueryIdle

Normalize ==
    /\ normPc = "input"
    /\ normalized' = normalizeGeo(networkData)
    /\ networkData' = docAfterNormalize(networkData)
    /\ normPc' = "normalized"
    /\ UNCHANGED <<renormalized, loadVars, queryVars>>

Renormalize ==
    /\ normPc = "normalized"
    /\ renormalized' = normalizeGeo(asDoc(normalized))
    /\ normPc' = "renormalized"
    /\ UNCHANGED <<networkData, normalized, loadVars, queryVars>>

\* normalizeGeo is called on the first document once more
NormalizeAgain ==
    /\ normPc = "renormalized"
    /\ normalized' = normalizeGeo(networkData)
    /\ networkData' = docAfterNormalize(networkData)
    /\ normPc' = "repeated"
    /\ UNCHANGED <<renormalized, loadVars, queryVars>>

NormNext == Normalize \/ Renormalize \/ NormalizeAgain

SpecNorm == NormInit /\ [][NormNext]_vars

-----------------------------------------------------------------------------
(* Properties of the normalisation *)

Roles == {"sponsor", "actor", "victim"}

RawNodeList == IF "nodes" \in DOMAIN networkData THEN networkData.nodes ELSE <<>>
RawLinkList == IF "links" \in DOMAIN networkData THEN networkData.links ELSE <<>>
RawNodeIds == {RawNodeList[i].id : i \in 1..Len(RawNodeList)}
EndpointIds ==
    {endpointId(RawLinkList[i].source) : i \in 1..Len(RawLinkList)}
    \cup {endpointId(RawLinkList[i].target) : i \in 1..Len(RawLinkList)}
InputIds == RawNodeIds \cup EndpointIds

\* The roles an id plays over all links of the input, read off the link types
RoleSet(x) ==
    LET ls == links(networkData)
    IN  {sourceRole(ls[i]) : i \in {j \in 1..Len(ls) : ls[j].source = x}}
        \cup {targetRole(ls[i]) : i \in {j \in 1..Len(ls) : ls[j].target = x}}

IdsOf(g) == {g.nodes[i].id : i \in 1..Len(g.nodes)}
NodeFacts(g) == {<<g.nodes[i].id, g.nodes[i].type>> : i \in 1..Len(g.nodes)}
Occurrences(g, x) ==
    Cardinality({j \in 1..Len(g.links) : g.links[j].source = x})
    + Cardinality({j \in 1..Len(g.links) : g.links[j].target = x})

RECURSIVE DegreeSum(_, _)
DegreeSum(ns, i) == IF i > Len(ns) THEN 0 ELSE ns[i].degree + DegreeSum(ns, i + 1)

Integrity(g) ==
    \A i \in 1..Len(g.links) : g.links[i].source \in IdsOf(g) /\ g.links[i].target \in IdsOf(g)

\* C1: every edge of a graph returned by normalizeGeo has its source and its
\* target among the ids of the returned nodes, also when the input's edges
\* name ids that its node list lacks.
C1_ReferentialIntegrity ==
    /\ normPc # "input" => Integrity(normalized)
    /\ normPc = "renormalized" => Integrity(renormalized)

C1_Witness ==
    /\ normPc = "normalized"
    /\ EndpointIds \ RawNodeIds # {}
    /\ \E x \in InputIds : {"sponsor", "victim"} \subseteq RoleSet(x)
    /\ Len(normalized.links) = 2

\* C2 as amended: a node X is replaced by the two nodes 'X [S]' (sponsor) and
\* 'X [T]' (victim) if and only if its role set contains both sponsor and
\* victim, whether or not it also contains actor; every other node is kept
\* under its own id.
C2_SplitIffSponsorAndVictim ==
    normPc # "input" =>
        LET split == {x \in InputIds : {"sponsor", "victim"} \subseteq RoleSet(x)}
        IN  /\ Len(normalized.nodes) = Cardinality(InputIds) + Cardinality(split)
            /\ \A x \in split :
                  /\ <<x \o " [S]", "sponsor">> \in NodeFacts(normalized)
                  /\ <<x \o " [T]", "victim">> \in NodeFacts(normalized)
            /\ \A x \in InputIds \ split : x \in IdsOf(normalized)

C2_Witness ==
    /\ normPc = "normalized"
    /\ RoleSet("A") = Roles
    /\ RoleSet("A [S]") = {"actor"}
    /\ "A [T]" \in IdsOf(normalized)

\* C2 as stated: a node is split if and only if its role set is exactly
\* {sponsor, victim}; a node with the role set {sponsor, actor, victim} is
\* not split.
C2_SplitIffExactlySponsorVictim ==
    normPc # "input" =>
        LET split == {x \in InputIds : RoleSet(x) = {"sponsor", "victim"}}
        IN  /\ Len(normalized.nodes) = Cardinality(InputIds) + Cardinality(split)
            /\ \A x \in split :
                  /\ <<x \o " [S]", "sponsor">> \in NodeFacts(normalized)
                  /\ <<x \o " [T]", "victim">> \in NodeFacts(normalized)
            /\ \A x \in InputIds \ split : x \in IdsOf(normalized)

\* C3: the degrees of the returned nodes sum to twice the number of returned
\* edges.
C3_DegreeSumIsTwiceEdges ==
    normPc # "input" => DegreeSum(normalized.nodes, 1) = 2 * Len(normalized.links)

\* C4: each returned node's degree is the number of times its id occurs as a
\* source plus the number of times it occurs as a target in the returned
\* edges (a self-loop counts twice, a node without edges has degree 0).
C4_DegreeIsOccurrences ==
    /\ normPc # "input" =>
          \A i \in 1..Len(normalized.nodes) :
              normalized.nodes[i].degree = Occurrences(normalized, normalized.nodes[i].id)
    /\ normPc = "renormalized" =>
          \A i \in 1..Len(renormalized.nodes) :
              renormalized.nodes[i].degree = Occurrences(renormalized, renormalized.nodes[i].id)

C4_Witness ==
    /\ normPc = "normalized"
    /\ \E j \in 1..Len(normalized.links) : normalized.links[j].source = normalized.links[j].target
    /\ \E i \in 1..Len(normalized.nodes) : normalized.nodes[i].degree = 0
    /\ \E i \in 1..Len(normalized.nodes) : normalized.nodes[i].degree = 3

\* C5: no two returned nodes have the same id (the ids of the raw node list
\* are unique), also when the raw graph has a node named like a split
\* variant.
C5_UniqueIds ==
    normPc # "input" =>
        \A i, j \in 1..Len(normalized.nodes) :
            normalized.nodes[i].id = normalized.nodes[j].id => i = j

\* C6: normalising the result of normalizeGeo again gives the same node ids,
\* the same node types and the same edges; nothing is split a second time.
C6_Idempotent ==
    normPc = "renormalized" =>
        /\ NodeFacts(renormalized) = NodeFacts(normalized)
        /\ Len(renormalized.nodes) = Len(normalized.nodes)
        /\ renormalized.links = normalized.links

\* C7 as amended: a returned node has type sponsor or victim when its role
\* set (or, for a split variant, its suffix) says so; otherwise it keeps the
\* type string its raw node carried, whatever that string is, and gets actor
\* only when the raw node had no type or was missing from the node list.
C7_TypeFromRolesElseRaw ==
    normPc # "input" =>
        \A i \in 1..Len(normalized.nodes) :
            LET n == normalized.nodes[i]
            IN  \/ n.type \in Roles
                \/ \E k \in 1..Len(RawNodeList) :
                      /\ RawNodeList[k].id = n.id
                      /\ "type" \in DOMAIN RawNodeList[k]
                      /\ RawNodeList[k].type = n.type
                      /\ RoleSet(n.id) \cap {"sponsor", "victim"} = {}

C7_Witness ==
    /\ normPc = "normalized"
    /\ <<"A", "country">> \in NodeFacts(normalized)
    /\ RoleSet("A") = {"actor"}
    /\ <<"A [S]", "sponsor">> \in NodeFacts(normalized)
    /\ "A [S]" \notin RawNodeIds

\* C7 as stated: every returned node has type actor, sponsor or victim,
\* whatever type the raw node carried.
C7_TypeInThreeRoles ==
    normPc # "input" =>
        \A i \in 1..Len(normalized.nodes) : normalized.nodes[i].type \in Roles

\* C8: an id that occurs as an edge endpoint but not in the raw node list is
\* given the record {id, actor, 0} before the roles are aggregated, so the
\* output has a node with that id or both of its split variants, and no edge
\* of the input is lost.
C8_Healing ==
    normPc # "input" =>
        /\ \A x \in EndpointIds \ RawNodeIds :
              /\ LET byId == nodesById(networkData, links(networkData))
                 IN  \E k \in 1..Len(byId) :
                        byId[k] = [id |-> x, type |-> "actor", degree |-> 0]
              /\ \/ x \in IdsOf(normalized)
                 \/ {x \o " [S]", x \o " [T]"} \subseteq IdsOf(normalized)
        /\ Len(normalized.links) = Len(RawLinkList)

C8_Witness ==
    /\ normPc = "normalized"
    /\ "A" \in EndpointIds \ RawNodeIds
    /\ "A [S]" \in EndpointIds \ RawNodeIds
    /\ {"sponsor", "victim"} \subseteq RoleSet("A [S]")
    /\ "A [S] [T]" \in IdsOf(normalized)
    /\ "A" \in IdsOf(normalized)

-----------------------------------------------------------------------------
(* Properties of the data loading effect *)

Settles == pending' # pending /\ PendingCount' < PendingCount
MissingBoth(raw) == raw = Null \/ ("nodes" \notin DOMAIN raw /\ "links" \notin DOMAIN raw)
MissingOne(raw) == raw = Null \/ "nodes" \notin DOMAIN raw \/ "links" \notin DOMAIN raw

\* The document with a collection it lacks put in as the empty list
WithEmpty(raw) ==
    [nodes |-> IF "nodes" \in DOMAIN raw THEN raw.nodes ELSE <<>>,
     links |-> IF "links" \in DOMAIN raw THEN raw.links ELSE <<>>]

\* C9 as amended: a delivered document is rejected exactly when it is null or
\* lacks both the nodes and the links collection: the error is raised before
\* normalizeGeo runs and the published graph stays as it was. A document that
\* lacks only one of the two collections is accepted, the missing collection
\* read as empty, and its graph is published.
C9_RejectedIffBothMissing ==
    [][(Settles /\ "raw" \in DOMAIN lastLoad') =>
          IF MissingBoth(lastLoad'.raw)
          THEN /\ lastLoad'.outcome = "failed"
               /\ lastLoad'.message = "Invalid network data structure"
               /\ ~lastLoad'.normalizeGeoRan
               /\ data' = data
               /\ ~loading'
          ELSE /\ lastLoad'.outcome = "published"
               /\ data' = safe(loadNormalized(lastLoad'.networkType,
                                              WithEmpty(lastLoad'.raw)))
               /\ ~loading']_vars

C9_Witness ==
    /\ lastLoad.outcome = "failed"
    /\ "raw" \in DOMAIN lastLoad
    /\ lastLoad.raw = [version |-> "1"]
    /\ data # Null
    /\ data.links = <<>>
    /\ data.nodes # <<>>

\* C9 as stated: a delivered document that lacks the nodes collection or lacks
\* the links collection is rejected before normalisation, and nothing is
\* published for it.
C9_RejectedIfEitherMissing ==
    ("raw" \in DOMAIN lastLoad /\ MissingOne(lastLoad.raw)) =>
        /\ lastLoad.outcome = "failed"
        /\ ~lastLoad.normalizeGeoRan

-----------------------------------------------------------------------------
(* Properties of the query evaluator *)

ResultTags ==
    {"multiple_sponsors", "country_targets", "most_targeted", "most_active", "unknown"}

\* C10: analyzeQuery never throws and returns a record tagged with one of the
\* five result types, for every question and every graph it is given,
\* also before a graph is loaded and for edges whose source is not a string.
C10_NeverThrowsAlwaysTagged ==
    /\ ~queryThrew
    /\ \A text \in Questions :
          LET r == analyzeQuery(qData, text)
          IN  r # Thrown /\ r # Null /\ r.type \in ResultTags

\* The four triggers as section 4.6 words them, on the question without case
TriggerMultipleSponsors(text) ==
    LET q == toLowerCase(text)
    IN  includes(q, "multiple") /\ (includes(q, "sponsor") \/ includes(q, "backed"))

TriggerCountryTargets(text) ==
    LET q == toLowerCase(text)
    IN  /\ includes(q, "target")
        /\ \/ matchWhatDoes(q).found
           \/ \E k \in 1..Len(CountryTokens) : includes(q, CountryTokens[k])

TriggerMostTargeted(text) == includes(toLowerCase(text), "most targeted")

TriggerMostActive(text) ==
    LET q == toLowerCase(text)
    IN  includes(q, "most active") /\ (includes(q, "sponsor") \/ includes(q, "actor"))

FirstMatch(text) ==
    IF TriggerMultipleSponsors(text) THEN "multiple_sponsors"
    ELSE IF TriggerCountryTargets(text) THEN "country_targets"
    ELSE IF TriggerMostTargeted(text) THEN "most_targeted"
    ELSE IF TriggerMostActive(text) THEN "most_active"
    ELSE "unknown"

TriggerCount(text) ==
    Cardinality({k \in 1..4 :
        \/ k = 1 /\ TriggerMultipleSponsors(text)
        \/ k = 2 /\ TriggerCountryTargets(text)
        \/ k = 3 /\ TriggerMostTargeted(text)
        \/ k = 4 /\ TriggerMostActive(text)})

\* C11: on a loaded graph every question gets a result, tagged with the first
\* of multiple_sponsors, country_targets, most_targeted, most_active whose
\* trigger matches its text, and tagged unknown with the fixed guidance message
\* exactly when no trigger matches.
C11_TotalOrderedFirstMatch ==
    (asked.called /\ qData # Null) =>
        /\ ~queryThrew
        /\ results # Null
        /\ results.type = FirstMatch(asked.queryText)
        /\ results.type = "unknown" => results.message = UnknownMessage

\* The distinct sources of the sponsor_to_actor edges into the node id
SponsorsOf(g, id) ==
    {idOf(g.links[j].source) :
        j \in {i \in 1..Len(g.links) :
                 /\ strictEq(idOf(g.links[i].target), id)
                 /\ includes(lowerType(g.links[i]), "sponsor_to_actor")}}

\* Positions in the node list of the actors with two sponsors or more
MultiplySponsored(g) ==
    {k \in 1..Len(g.nodes) :
        g.nodes[k].type = "actor" /\ Cardinality(SponsorsOf(g, g.nodes[k].id)) >= 2}

NodePosition(g, id) == CHOOSE k \in 1..Len(g.nodes) : g.nodes[k].id = id

\* C12: a multiple_sponsors result lists exactly the actor-type nodes that
\* sponsor_to_actor edges reach from two or more distinct sources, once each,
\* with sponsorCount the number of those sources and count the length of the
\* list, in descending sponsorCount order, ties in node-list order.
C12_MultipleSponsorsResult ==
    (results # Null /\ results.type = "multiple_sponsors") =>
        LET r == results.results
            Q == MultiplySponsored(qData)
        IN  /\ results.count = Len(r)
            /\ Len(r) = Cardinality(Q)
            /\ \A k \in Q : \E i \in 1..Len(r) : r[i].actor = qData.nodes[k].id
            /\ \A i \in 1..Len(r) :
                  /\ NodePosition(qData, r[i].actor) \in Q
                  /\ r[i].sponsorCount = Cardinality(SponsorsOf(qData, r[i].actor))
                  /\ {r[i].sponsors[n] : n \in 1..Len(r[i].sponsors)}
                         = SponsorsOf(qData, r[i].actor)
            /\ \A i, j \in 1..Len(r) :
                  i < j =>
                     \/ r[i].sponsorCount > r[j].sponsorCount
                     \/ /\ r[i].sponsorCount = r[j].sponsorCount
                        /\ NodePosition(qData, r[i].actor) < NodePosition(qData, r[j].actor)

C12_Witness ==
    /\ results # Null
    /\ results.type = "multiple_sponsors"
    /\ \E i, j \in 1..Len(results.results) :
          /\ i < j
          /\ results.results[i].sponsorCount = results.results[j].sponsorCount
    /\ \E i, j \in 1..Len(results.results) :
          /\ NodePosition(qData, results.results[i].actor)
                > NodePosition(qData, results.results[j].actor)
          /\ results.results[i].sponsorCount > results.results[j].sponsorCount
    /\ \E k \in 1..Len(qData.nodes) :
          /\ qData.nodes[k].type = "actor"
          /\ Cardinality(SponsorsOf(qData, qData.nodes[k].id)) = 1
    /\ \E k \in 1..Len(qData.nodes) :
          /\ qData.nodes[k].type # "actor"
          /\ Cardinality(SponsorsOf(qData, qData.nodes[k].id)) = 2

\* An edge's weight in the data model: a positive number, 1 when absent
EdgeWeight(l) == IF "weight" \in DOMAIN l THEN l.weight ELSE 1

WeightsInDataModel(g) == \A i \in 1..Len(g.links) : EdgeWeight(g.links[i]) > 0

RECURSIVE WeightSum(_, _)
WeightSum(g, S) ==
    IF S = {} THEN 0
    ELSE LET i == CHOOSE x \in S : TRUE
         IN  EdgeWeight(g.links[i]) + WeightSum(g, S \ {i})

TargetName(g, i) == idOf(g.links[i].target).val
SourceName(g, i) == idOf(g.links[i].source).val

\* r lists the n keys (or all, if fewer) with the largest weight sums over the
\* edges M of g grouped by Key, each with its sum, in descending order of sum,
\* keys of equal sum in the order in which the edge list first has them
IsRanking(r, g, M, Key(_), n) ==
    LET K == {Key(i) : i \in M}
        Sum(k) == WeightSum(g, {i \in M : Key(i) = k})
        First(k) == CHOOSE i \in M : Key(i) = k /\ \A j \in M : Key(j) = k => i <= j
        Before(a, b) == \/ Sum(a) > Sum(b)
                        \/ Sum(a) = Sum(b) /\ First(a) < First(b)
    IN  /\ Len(r) = IF Cardinality(K) < n THEN Cardinality(K) ELSE n
        /\ \A i \in 1..Len(r) : r[i].name \in K /\ r[i].count = Sum(r[i].name)
        /\ \A i, j \in 1..Len(r) : i < j => Before(r[i].name, r[j].name)
        /\ \A k \in K \ {r[i].name : i \in 1..Len(r)} :
              \A i \in 1..Len(r) : Before(r[i].name, k)

\* The text captured from the question: the X of "what does X target", else
\* the first country token, without surrounding blanks
CapturedToken(text) ==
    LET q  == toLowerCase(text)
        m1 == matchWhatDoes(q)
    IN  trim(IF m1.found THEN m1.group ELSE matchCountry(q).group)

ContainsToken(src, token) ==
    src.kind = "string" /\ includes(toLowerCase(src.val), toLowerCase(token))

CountryTargetsAnswered ==
    /\ asked.called
    /\ ~queryThrew
    /\ results # Null
    /\ results.type = "country_targets"
    /\ WeightsInDataModel(qData)

VictimOrTargetEdges(g) ==
    {i \in 1..Len(g.links) :
        \/ includes(lowerType(g.links[i]), "victim")
        \/ includes(lowerType(g.links[i]), "target")}

MostTargetedAnswered ==
    /\ results # Null
    /\ results.type = "most_targeted"
    /\ WeightsInDataModel(qData)

AskedCategory(text) ==
    IF includes(toLowerCase(text), "sponsor") THEN "sponsor" ELSE "actor"

\* The edges whose source is a node of the graph with the type ty
EdgesFromType(g, ty) ==
    {i \in 1..Len(g.links) :
        \E k \in 1..Len(g.nodes) :
            /\ strictEq(idOf(g.links[i].source), g.nodes[k].id)
            /\ g.nodes[k].type = ty}

MostActiveAnswered ==
    /\ asked.called
    /\ ~queryThrew
    /\ results # Null
    /\ results.type = "most_active"
    /\ WeightsInDataModel(qData)

\* C15: in a most_active result the category is sponsor when the question
\* contains sponsor and actor otherwise; each source's count is the sum of the
\* weights of the edges leaving it, counted only when the source is a node of
\* the graph whose type is the category; the list is the fifteen largest sums
\* in descending order.
C15_MostActiveResult ==
    MostActiveAnswered =>
        LET Key(i) == SourceName(qData, i)
        IN  /\ results.category = AskedCategory(asked.queryText)
            /\ IsRanking(results.results, qData,
                         EdgesFromType(qData, results.category), Key, 15)

C15_Witness ==
    /\ MostActiveAnswered
    /\ results.category = "actor"
    /\ Len(results.results) = 15
    /\ Cardinality({SourceName(qData, i) : i \in EdgesFromType(qData, "actor")}) > 15
    /\ EdgesFromType(qData, "sponsor") # {}
    /\ \E n \in 1..14 : results.results[n].count > results.results[n + 1].count

\* What an evaluation of the question text on the graph g ends in
Outcome(g, text) ==
    LET r == analyzeQuery(g, text)
    IN  IF r = Thrown THEN [threw |-> TRUE] ELSE [threw |-> FALSE, result |-> r]

-----------------------------------------------------------------------------
(* Further properties of the normalisation *)

-----------------------------------------------------------------------------
(* Further properties of the data loading effect *)

PublishedIds(g) == {g.nodes[i].id : i \in 1..Len(g.nodes)}

PublishedIntegrity(g) ==
    \A i \in 1..Len(g.links) :
        g.links[i].source.val \in PublishedIds(g) /\ g.links[i].target.val \in PublishedIds(g)

PublishedDegrees(g) ==
    \A i \in 1..Len(g.nodes) :
        g.nodes[i].degree =
            Cardinality({j \in 1..Len(g.links) : g.links[j].source.val = g.nodes[i].id})
            + Cardinality({j \in 1..Len(g.links) : g.links[j].target.val = g.nodes[i].id})

\* C18 as amended: only the geo dataset is normalised. A published geo graph
\* has every edge endpoint among its node ids and every degree counted from
\* its edges; a published sector graph is the delivered document in minimal
\* shape: its nodes, edges and degrees as delivered, nothing healed, split or
\* recounted.
C18_OnlyGeoIsNormalized ==
    lastLoad.outcome = "published" =>
        IF lastLoad.networkType = "geo"
        THEN /\ lastLoad.normalizeGeoRan
             /\ PublishedIntegrity(data)
             /\ PublishedDegrees(data)
        ELSE /\ ~lastLoad.normalizeGeoRan
             /\ data = safe(lastLoad.raw)

C18_Witness ==
    /\ lastLoad.outcome = "published"
    /\ lastLoad.networkType = "sector"
    /\ networkType = "sector"
    /\ ~loading
    /\ ~PublishedIntegrity(data)
    /\ "A [S]" \notin PublishedIds(data)
    /\ "A [T]" \notin PublishedIds(data)

\* C18 as stated: whichever dataset is selected, the published graph has every
\* edge endpoint among its node ids and every degree counted from its edges.
C18_EveryPublishedGraphIsNormalized ==
    lastLoad.outcome = "published" =>
        /\ PublishedIntegrity(data)
        /\ PublishedDegrees(data)

-----------------------------------------------------------------------------
(* Routing of the edges and typing of the nodes *)

\* The ids whose role set over the input has both sponsor and victim
SplitIds == {x \in InputIds : {"sponsor", "victim"} \subseteq RoleSet(x)}

SponsorVariants == {x \o " [S]" : x \in SplitIds}
VictimVariants == {x \o " [T]" : x \in SplitIds}

\* Where the rule sends an endpoint on the node x that has the role on its edge
Routed(x, role) ==
    IF x \notin SplitIds THEN x
    ELSE IF role = "victim" THEN x \o " [T]"
    ELSE x \o " [S]"

\* C19: the i-th returned edge has the i-th input edge's endpoints, each kept
\* when its node is not split and otherwise sent to the [S] variant for the
\* roles sponsor and actor and to the [T] variant for the role victim; so no
\* edge of a to_victim type ends at a sponsor variant and no edge of a
\* sponsor_to type starts at a victim variant.
C19_EdgeRouting ==
    normPc # "input" =>
        LET ls == links(networkData)
        IN  /\ Len(normalized.links) = Len(ls)
            /\ \A i \in 1..Len(ls) :
                  /\ normalized.links[i].source = Routed(ls[i].source, sourceRole(ls[i]))
                  /\ normalized.links[i].target = Routed(ls[i].target, targetRole(ls[i]))
                  /\ includes(toLowerCase(ls[i].type), "to_victim")
                        => normalized.links[i].target \notin SponsorVariants
                  /\ includes(toLowerCase(ls[i].type), "sponsor_to")
                        => normalized.links[i].source \notin VictimVariants

\* The type the raw node list gives the id x, "" when it gives none
RawTypeOf(x) ==
    IF \E k \in 1..Len(RawNodeList) : RawNodeList[k].id = x /\ "type" \in DOMAIN RawNodeList[k]
    THEN LET k == CHOOSE j \in 1..Len(RawNodeList) :
                      RawNodeList[j].id = x /\ "type" \in DOMAIN RawNodeList[j]
         IN  RawNodeList[k].type
    ELSE ""

\* C20 as amended: a node that is not split keeps its id and gets the type
\* sponsor if its role set has sponsor, else victim if it has victim, else the
\* type its raw node carried, and actor only when the raw node carried none or
\* the id came from an edge alone.
C20_TypePrecedenceElseRaw ==
    normPc # "input" =>
        \A x \in InputIds \ SplitIds :
            <<x, IF "sponsor" \in RoleSet(x) THEN "sponsor"
                 ELSE IF "victim" \in RoleSet(x) THEN "victim"
                 ELSE IF RawTypeOf(x) # "" THEN RawTypeOf(x)
                 ELSE "actor">> \in NodeFacts(normalized)

C20_Witness ==
    /\ normPc = "normalized"
    /\ SplitIds = {}
    /\ RoleSet("A") = {}
    /\ RawTypeOf("A") = "country"
    /\ <<"A", "country">> \in NodeFacts(normalized)
    /\ "A [S]" \in RawNodeIds
    /\ <<"A [S]", "sponsor">> \in NodeFacts(normalized)

\* C20 as stated: a node that is not split gets sponsor, else victim, else
\* actor, whatever type its raw node carried.
C20_TypePrecedenceElseActor ==
    normPc # "input" =>
        \A x \in InputIds \ SplitIds :
            <<x, IF "sponsor" \in RoleSet(x) THEN "sponsor"
                 ELSE IF "victim" \in RoleSet(x) THEN "victim"
                 ELSE "actor">> \in NodeFacts(normalized)

-----------------------------------------------------------------------------
(* Order of the raw edges *)

\* The orders a list of n edges can be given in
Orderings(n) == {p \in [1..n -> 1..n] : \A i, j \in 1..n : p[i] = p[j] => i = j}

\* The document with its edges in the order p
Reordered(doc, p) == [doc EXCEPT !.links = [i \in 1..Len(doc.links) |-> doc.links[p[i]]]]

\* What normalizeGeo aggregates from a document before it builds the output
RolesOf(doc) == nodeRoles(linkRoles(links(doc)))

NodeRecords(g) == {g.nodes[i] : i \in 1..Len(g.nodes)}
EdgeRecords(g) == {g.links[i] : i \in 1..Len(g.links)}

\* C21: for every order of the raw edge list, normalizeGeo aggregates the same
\* role set per node id, splits the same nodes and returns the same set of
\* node records (id, type, degree) and the same set of edges.
C21_OrderIndependent ==
    (normPc = "normalized" /\ "links" \in DOMAIN networkData) =>
        \A p \in Orderings(Len(networkData.links)) :
            LET other == Reordered(networkData, p)
                out   == normalizeGeo(other)
            IN  /\ RolesOf(other) = RolesOf(networkData)
                /\ needsSplit(RolesOf(other)) = needsSplit(RolesOf(networkData))
                /\ NodeRecords(out) = NodeRecords(normalized)
                /\ EdgeRecords(out) = EdgeRecords(normalized)

C21_Witness ==
    /\ normPc = "normalized"
    /\ Len(RawLinkList) = MaxLinks
    /\ needsSplit(RolesOf(networkData)) # {}
    /\ \E p \in Orderings(Len(RawLinkList)) :
          LET out == normalizeGeo(Reordered(networkData, p))
          IN  /\ out.nodes # normalized.nodes
              /\ out.links # normalized.links
    /\ \E x \in InputIds : RoleSet(x) = Roles

-----------------------------------------------------------------------------
(* Resolution of the country named in a question *)

\* The display name the claim gives each country token; a token it names no
\* country for is its own display name
DisplayNameOf(token) ==
    CASE token = "china"       -> "China"
      [] token = "russia"      -> "Russian Federation"
      [] token = "iran"        -> "Iran (Islamic Republic of)"
      [] token = "korea"       -> "Korea (Democratic People's Republic of)"
      [] token = "north korea" -> "Korea (Democratic People's Republic of)"
      [] OTHER                 -> token

CountryTargetsReturned ==
    /\ asked.called
    /\ ~queryThrew
    /\ results # Null
    /\ results.type = "country_targets"

\* C22: the sponsor field of a country_targets result is the canonical display
\* name of the captured token: China, Russian Federation, Iran (Islamic
\* Republic of) and Korea (Democratic People's Republic of) for the tokens
\* china, russia, iran and korea, and the token itself when the table has no
\* entry for it.
C22_CountryResolution ==
    CountryTargetsReturned =>
        results.sponsor = DisplayNameOf(CapturedToken(asked.queryText))

-----------------------------------------------------------------------------
(* The check of the rewired edges *)

\* The rewired edges of a document that normalizeGeo finds to name an id that
\* no new node has: the list whose length decides on the early return
InvalidLinksOf(doc) ==
    LET ls    == links(doc)
        lr    == linkRoles(ls)
        roles == nodeRoles(lr)
        split == needsSplit(roles)
    IN  invalidLinks(newLinks(lr, split),
                     newNodeIds(newNodes(nodesById(doc, ls), roles, split)))

\* C23: normalizeGeo returns as many edges as the raw document has, the i-th
\* with the i-th raw edge's weight (1 when absent) and type ('' when absent);
\* no rewired edge names an id that no new node has, so the branch that
\* returns without counting the degrees is never taken.
C23_NoEdgeDiscarded ==
    /\ normPc # "input" =>
          /\ InvalidLinksOf(networkData) = <<>>
          /\ Len(normalized.links) = Len(RawLinkList)
          /\ \A i \in 1..Len(RawLinkList) :
                /\ normalized.links[i].weight =
                      IF "weight" \in DOMAIN RawLinkList[i] THEN RawLinkList[i].weight ELSE 1
                /\ normalized.links[i].type =
                      IF "type" \in DOMAIN RawLinkList[i] THEN RawLinkList[i].type ELSE ""
    /\ normPc \in {"renormalized", "repeated"} =>
          /\ InvalidLinksOf(asDoc(normalized)) = <<>>
          /\ Len(renormalized.links) = Len(normalized.links)

C23_Witness ==
    /\ normPc = "normalized"
    /\ RoleSet("A") = Roles
    /\ Len(RawLinkList) = 2
    /\ "type" \notin DOMAIN RawLinkList[2]
    /\ "weight" \notin DOMAIN RawLinkList[2]
    /\ "A" \notin RawNodeIds
    /\ normalized.links[2] = [source |-> "A [S]", target |-> "A [S]", weight |-> 1, type |-> ""]

-----------------------------------------------------------------------------
(* Types of the nodes the returned edges name *)

\* The types of the nodes of g that carry the id x
TypesOfId(g, x) == {g.nodes[k].type : k \in {j \in 1..Len(g.nodes) : g.nodes[j].id = x}}

RoleConsistent(g) ==
    \A i \in 1..Len(g.links) :
        LET t == toLowerCase(g.links[i].type)
        IN  /\ includes(t, "sponsor_to") => TypesOfId(g, g.links[i].source) = {"sponsor"}
            /\ includes(t, "to_victim") => TypesOfId(g, g.links[i].target) = {"victim"}

\* C24: in every graph normalizeGeo returns, the node that an edge of a
\* sponsor_to type starts at has the type sponsor and the node that an edge
\* of a to_victim type ends at has the type victim.
C24_RoleConsistentTyping ==
    /\ normPc # "input" => RoleConsistent(normalized)
    /\ normPc \in {"renormalized", "repeated"} => RoleConsistent(renormalized)

-----------------------------------------------------------------------------
(* Switching the dataset while a load is in flight *)

\* A load has settled for a dataset that is not the selected one
SettlesLate == Settles /\ lastLoad'.networkType # networkType

\* C25: a response for a dataset that is no longer selected never replaces
\* the published graph; once every load has settled, a graph published by the
\* load that settled last is the selected dataset's; and the loading flag is
\* false only when no load for the selected dataset is outstanding.
C25_SwitchRace ==
    /\ [](~loading => pending[networkType] = 0)
    /\ []((PendingCount = 0 /\ lastLoad.outcome = "published")
             => lastLoad.networkType = networkType)
    /\ [][SettlesLate => data' = data]_vars

====
